---- MODULE Spec2Model ----
(***************************************************************************)
(* A model of interpreter.py: the tokenizer, the recursive-descent reader, *)
(* atom classification, the standard environment and its primitives, the   *)
(* evaluator, the printer and the read-eval-print loop.                    *)
(*                                                                         *)
(* Text is a sequence of one-character strings.  A Lisp value is a record  *)
(* tagged by its Python type in field k:                                   *)
(*   int   [k, v]      float [k, n, d] (the rational n/d, d > 0)           *)
(*   sym   [k, s]      list  [k, e]    bool [k, b]    none [k]   proc [k,f]*)
(* A raised exception is carried in field exc of a result record, together *)
(* with the environment as mutated up to the raise (a Python dict is       *)
(* changed in place, so the changes survive the exception).                *)
(***************************************************************************)
EXTENDS Integers, Sequences, FiniteSets, TLC

VARIABLES
    global_env,   \* interpreter.py:90, the dict every evaluation shares
    pc,           \* where repl() is: "input" (in input()), "done" (end of an
                  \* iteration), "exit" (after break), "crashed" (left by an
                  \* exception no except clause names)
    nread,        \* how many input lines repl() has consumed
    event,        \* what the last input() call delivered: "none", "line", "interrupt", "eof"
    line,         \* the text of the last input line (in SpecReader, before the
                  \* loop has read: the line waiting on the standard input)
    env0,         \* global_env as it was before the last line was evaluated
    res,          \* the result record of the last parse/lisp_eval
    printed       \* the lines the last iteration wrote to stdout

vars == <<global_env, pc, nread, event, line, env0, res, printed>>

---------------------------------------------------------------------------
(* Bounds of the model *)

\* lines the read-eval-print loop reads in one run of Spec
MaxLines == 3
\* length of the exhaustively enumerated input texts of SpecReader
MaxLen == 6

---------------------------------------------------------------------------
(* Values *)

IntV(n) == [k |-> "int", v |-> n]
Symbol(s) == [k |-> "sym", s |-> s]
List(e) == [k |-> "list", e |-> e]
BoolV(b) == [k |-> "bool", b |-> b]
None == [k |-> "none"]
Proc(f) == [k |-> "proc", f |-> f]

RECURSIVE Gcd(_, _)
Gcd(a, b) == IF b = 0 THEN a ELSE Gcd(b, a % b)

Abs(n) == IF n < 0 THEN -n ELSE n

\* a Python float, kept as the rational n/d in lowest terms
FloatV(n, d) ==
    LET g == Gcd(Abs(n), Abs(d))
        s == IF d < 0 THEN -1 ELSE 1
    IN [k |-> "float", n |-> (s * n) \div g, d |-> (s * d) \div g]

---------------------------------------------------------------------------
(* Text *)

Digits == <<"0", "1", "2", "3", "4", "5", "6", "7", "8", "9">>

IsDigit(c) == \E i \in 1..10 : Digits[i] = c

DigitVal(c) == (CHOOSE i \in 1..10 : Digits[i] = c) - 1

RECURSIVE Concat(_)
Concat(ss) == IF ss = <<>> THEN <<>> ELSE Head(ss) \o Concat(Tail(ss))

\* a join that drops the separator
Join_NoSeparator(sep, parts) == Concat(parts)

\* sep.join(parts)
RECURSIVE Join(_, _)
Join(sep, parts) ==
    IF parts = <<>> THEN <<>>
    ELSE IF Len(parts) = 1 THEN parts[1]
    ELSE parts[1] \o sep \o Join(sep, Tail(parts))

\* chars.replace(c, rep)
RECURSIVE Replace(_, _, _)
Replace(chars, c, rep) ==
    IF chars = <<>> THEN <<>>
    ELSE (IF Head(chars) = c THEN rep ELSE <<Head(chars)>>)
         \o Replace(Tail(chars), c, rep)

\* chars.split(): the maximal runs of non-whitespace characters
RECURSIVE SplitFrom(_, _)
SplitFrom(chars, cur) ==
    IF chars = <<>> THEN (IF cur = <<>> THEN <<>> ELSE <<cur>>)
    ELSE IF Head(chars) = " "
         THEN (IF cur = <<>> THEN <<>> ELSE <<cur>>) \o SplitFrom(Tail(chars), <<>>)
         ELSE SplitFrom(Tail(chars), Append(cur, Head(chars)))

Split(chars) == SplitFrom(chars, <<>>)

tokenize(chars) ==
    Split(Replace(Replace(chars, "(", <<" ", "(", " ">>), ")", <<" ", ")", " ">>))

---------------------------------------------------------------------------
(* Atom classification *)

Unsigned(token) ==
    IF token # <<>> /\ Head(token) \in {"+", "-"} THEN Tail(token) ELSE token

Sign(token) == IF token # <<>> /\ Head(token) = "-" THEN -1 ELSE 1

AllDigits(s) == \A i \in 1..Len(s) : IsDigit(s[i])

RECURSIVE DigitsValue(_, _)
DigitsValue(s, acc) ==
    IF s = <<>> THEN acc ELSE DigitsValue(Tail(s), 10 * acc + DigitVal(Head(s)))

RECURSIVE Pow10(_)
Pow10(n) == IF n = 0 THEN 1 ELSE 10 * Pow10(n - 1)

\* int(token) succeeds: an optional sign and one or more decimal digits
IntOk(token) == Unsigned(token) # <<>> /\ AllDigits(Unsigned(token))

IntOf(token) == Sign(token) * DigitsValue(Unsigned(token), 0)

\* float(token) succeeds: an optional sign and digits with at most one "."
\* among them, at least one digit
FloatOk(token) ==
    LET u == Unsigned(token)
        dots == {i \in 1..Len(u) : u[i] = "."}
    IN /\ Cardinality(dots) <= 1
       /\ \E i \in 1..Len(u) : IsDigit(u[i])
       /\ \A i \in 1..Len(u) : IsDigit(u[i]) \/ u[i] = "."

FloatOf(token) ==
    LET u == Unsigned(token)
        ds == SelectSeq(u, IsDigit)
        frac == IF \E i \in 1..Len(u) : u[i] = "."
                THEN Len(u) - (CHOOSE i \in 1..Len(u) : u[i] = ".")
                ELSE 0
    IN FloatV(Sign(token) * DigitsValue(ds, 0), Pow10(frac))

atom(token) ==
    IF IntOk(token) THEN IntV(IntOf(token))
    ELSE IF FloatOk(token) THEN FloatOf(token)
    ELSE Symbol(token)

---------------------------------------------------------------------------
(* Reader *)

\* the argument of an exception: a message
Msg(m) == [k |-> "msg", m |-> m]

\* a result of the reader: the exception raised ("none" when it returned)
\* and its argument, the term read and the tokens left
Read(exc, arg, val, rest) == [exc |-> exc, arg |-> arg, val |-> val, rest |-> rest]

RECURSIVE read_from_tokens(_)
RECURSIVE read_form(_, _)

\* the loop of lines 32-35: form is the list built so far
read_form(tokens, form) ==
    IF tokens = <<>> THEN Read("IndexError", Msg("list index out of range"), None, tokens)
    ELSE IF Head(tokens) = <<")">> THEN Read("none", None, List(form), Tail(tokens))
    ELSE LET r == read_from_tokens(tokens)
         IN IF r.exc # "none" THEN r
            ELSE read_form(r.rest, Append(form, r.val))

read_from_tokens(tokens) ==
    IF tokens = <<>> THEN Read("SyntaxError", Msg("unexpected EOF"), None, tokens)
    ELSE LET token == Head(tokens)
             rest == Tail(tokens)
         IN IF token = <<"(">> THEN read_form(rest, <<>>)
            ELSE IF token = <<")">> THEN Read("SyntaxError", Msg("unexpected )"), None, rest)
            ELSE Read("none", None, atom(token), rest)

parse(input_program) == read_from_tokens(tokenize(input_program))

---------------------------------------------------------------------------
(* Printer *)

RECURSIVE NatStr(_)
NatStr(n) ==
    IF n < 10 THEN <<Digits[n + 1]>> ELSE Append(NatStr(n \div 10), Digits[(n % 10) + 1])

\* str(n) of an int
IntStr(n) == IF n < 0 THEN <<"-">> \o NatStr(-n) ELSE NatStr(n)

RECURSIVE Only2And5(_)
Only2And5(d) ==
    IF d = 1 THEN TRUE
    ELSE IF d % 2 = 0 THEN Only2And5(d \div 2)
    ELSE IF d % 5 = 0 THEN Only2And5(d \div 5)
    ELSE FALSE

\* the least j with d dividing 10^j, for d a product of 2s and 5s
RECURSIVE DecimalPlaces(_, _)
DecimalPlaces(d, j) == IF Pow10(j) % d = 0 THEN j ELSE DecimalPlaces(d, j + 1)

RECURSIVE ZeroPad(_, _)
ZeroPad(s, w) == IF Len(s) >= w THEN s ELSE ZeroPad(<<"0">> \o s, w)

\* repr(x) of a float: the shortest decimal text that reads back as x.  For a
\* float n/d that is a short terminating decimal of moderate size this is
\* its decimal expansion; the other floats print as one opaque piece.
FloatStr(x) ==
    IF Only2And5(x.d) /\ Abs(x.n) < 1000000 * x.d
       /\ (x.n = 0 \/ Abs(x.n) * 10000 >= x.d)
    THEN LET j == DecimalPlaces(x.d, 0)
             scaled == (Abs(x.n) * Pow10(j)) \div x.d
         IN (IF x.n < 0 THEN <<"-">> ELSE <<>>)
            \o NatStr(scaled \div Pow10(j)) \o <<".">>
            \o (IF j = 0 THEN <<"0">> ELSE ZeroPad(NatStr(scaled % Pow10(j)), j))
    ELSE <<"<float>">>

\* str(exp) of a value that is not a list
Str(exp) ==
    CASE exp.k = "int" -> IntStr(exp.v)
      [] exp.k = "float" -> FloatStr(exp)
      [] exp.k = "sym" -> exp.s
      [] exp.k = "bool" -> IF exp.b THEN <<"T", "r", "u", "e">>
                                    ELSE <<"F", "a", "l", "s", "e">>
      [] exp.k = "none" -> <<"N", "o", "n", "e">>
      [] exp.k = "proc" ->
            IF exp.f \in {"cons", "car", "cdr", "atom"}
            THEN <<"<function standard_env.<locals>.<lambda> at 0x...>">>
            ELSE <<"<built-in function ", exp.f, ">">>

RECURSIVE lisp_str(_)
RECURSIVE MapStr(_)
MapStr(es) == IF es = <<>> THEN <<>> ELSE <<lisp_str(Head(es))>> \o MapStr(Tail(es))

lisp_str(exp) ==
    IF exp.k = "list" THEN <<"(">> \o Join(<<" ">>, MapStr(exp.e)) \o <<")">>
    ELSE Str(exp)

---------------------------------------------------------------------------
(* Primitives: the functions of Python's operator module and the lambdas   *)
(* that standard_env registers                                             *)

\* a result of a call: the exception raised ("none" when it returned), its
\* argument and the value returned
Ret(val) == [exc |-> "none", arg |-> None, val |-> val]
Raise(exc, m) == [exc |-> exc, arg |-> Msg(m), val |-> None]

\* Python numbers: int, float and bool (a subclass of int)
IsNum(x) == x.k \in {"int", "float", "bool"}
IsIntLike(x) == x.k \in {"int", "bool"}
Numer(x) == CASE x.k = "int" -> x.v
              [] x.k = "bool" -> (IF x.b THEN 1 ELSE 0)
              [] x.k = "float" -> x.n
Denom(x) == IF x.k = "float" THEN x.d ELSE 1

\* a number of the type Python's coercion gives: float when either is
Number(n, d, x, y) ==
    IF x.k = "float" \/ y.k = "float" THEN FloatV(n, d) ELSE IntV(n \div d)

\* the characters of the texts, in code-point order
CodeOrder ==
    <<" ", "(", ")", "*", "+", "-", ".", "/",
      "0", "1", "2", "3", "4", "5", "6", "7", "8", "9", "<", "=", ">",
      "a", "b", "c", "d", "e", "f", "g", "h", "i", "j", "k", "l", "m",
      "n", "o", "p", "q", "r", "s", "t", "u", "v", "w", "x", "y", "z">>

Ord(c) == CHOOSE i \in 1..Len(CodeOrder) : CodeOrder[i] = c

\* s * n of a sequence
RECURSIVE Repeat(_, _)
Repeat(s, n) == IF n <= 0 THEN <<>> ELSE s \o Repeat(s, n - 1)

\* x == y
RECURSIVE PyEq(_, _)
PyEq(x, y) ==
    IF IsNum(x) /\ IsNum(y) THEN Numer(x) * Denom(y) = Numer(y) * Denom(x)
    ELSE IF x.k # y.k THEN FALSE
    ELSE IF x.k = "list"
         THEN /\ Len(x.e) = Len(y.e)
              /\ \A i \in 1..Len(x.e) : PyEq(x.e[i], y.e[i])
    ELSE x = y

\* three-way comparison of two strings: -1, 0 or 1
RECURSIVE StrCmp(_, _)
StrCmp(s, t) ==
    IF s = <<>> THEN (IF t = <<>> THEN 0 ELSE -1)
    ELSE IF t = <<>> THEN 1
    ELSE IF Head(s) = Head(t) THEN StrCmp(Tail(s), Tail(t))
    ELSE IF Ord(Head(s)) < Ord(Head(t)) THEN -1 ELSE 1

\* the ordering of x and y: -1, 0, 1, or 2 where Python raises TypeError
\* ('<' not supported between instances).  Lists are ordered by their first
\* elements that are not ==, or by length when there is none.
RECURSIVE Cmp(_, _)
Cmp(x, y) ==
    IF IsNum(x) /\ IsNum(y)
    THEN LET a == Numer(x) * Denom(y)
             b == Numer(y) * Denom(x)
         IN IF a < b THEN -1 ELSE IF a = b THEN 0 ELSE 1
    ELSE IF x.k = "sym" /\ y.k = "sym" THEN StrCmp(x.s, y.s)
    ELSE IF x.k = "list" /\ y.k = "list"
         THEN LET m == IF Len(x.e) < Len(y.e) THEN Len(x.e) ELSE Len(y.e)
                  diff == {i \in 1..m : ~PyEq(x.e[i], y.e[i])}
              IN IF diff = {}
                 THEN (IF Len(x.e) < Len(y.e) THEN -1
                       ELSE IF Len(x.e) = Len(y.e) THEN 0 ELSE 1)
                 ELSE LET i == CHOOSE j \in diff : \A l \in diff : j <= l
                      IN Cmp(x.e[i], y.e[i])
    ELSE 2

Unsupported == Raise("TypeError", "unsupported operand type(s)")

\* operator.add
add(x, y) ==
    IF IsNum(x) /\ IsNum(y)
    THEN Ret(Number(Numer(x) * Denom(y) + Numer(y) * Denom(x), Denom(x) * Denom(y), x, y))
    ELSE IF x.k = "sym" /\ y.k = "sym" THEN Ret(Symbol(x.s \o y.s))
    ELSE IF x.k = "list" /\ y.k = "list" THEN Ret(List(x.e \o y.e))
    ELSE Unsupported

\* operator.sub
sub(x, y) ==
    IF IsNum(x) /\ IsNum(y)
    THEN Ret(Number(Numer(x) * Denom(y) - Numer(y) * Denom(x), Denom(x) * Denom(y), x, y))
    ELSE Unsupported

\* operator.mul
mul(x, y) ==
    IF IsNum(x) /\ IsNum(y)
    THEN Ret(Number(Numer(x) * Numer(y), Denom(x) * Denom(y), x, y))
    ELSE IF x.k = "sym" /\ IsIntLike(y) THEN Ret(Symbol(Repeat(x.s, Numer(y))))
    ELSE IF IsIntLike(x) /\ y.k = "sym" THEN Ret(Symbol(Repeat(y.s, Numer(x))))
    ELSE IF x.k = "list" /\ IsIntLike(y) THEN Ret(List(Repeat(x.e, Numer(y))))
    ELSE IF IsIntLike(x) /\ y.k = "list" THEN Ret(List(Repeat(y.e, Numer(x))))
    ELSE Unsupported

\* operator.truediv
truediv(x, y) ==
    IF IsNum(x) /\ IsNum(y)
    THEN IF Numer(y) = 0 THEN Raise("ZeroDivisionError", "division by zero")
         ELSE Ret(FloatV(Numer(x) * Denom(y), Denom(x) * Numer(y)))
    ELSE Unsupported

\* operator.gt, lt, ge, le: `want` holds the orderings the operator accepts
Compare(x, y, want) ==
    IF Cmp(x, y) = 2 THEN Raise("TypeError", "not supported between instances")
    ELSE Ret(BoolV(Cmp(x, y) \in want))

\* x[i] of lines 83-84, i counted from 0
Subscript(x, i) ==
    IF x.k = "list"
    THEN (IF i < Len(x.e) THEN Ret(x.e[i + 1])
          ELSE Raise("IndexError", "list index out of range"))
    ELSE IF x.k = "sym"
    THEN (IF i < Len(x.s) THEN Ret(Symbol(<<x.s[i + 1]>>))
          ELSE Raise("IndexError", "string index out of range"))
    ELSE Raise("TypeError", "object is not subscriptable")

cons(x, y) == Ret(List(<<x, y>>))
car(x) == Subscript(x, 0)
cdr(x) == Subscript(x, 1)

\* isinstance(x, Atom), Atom being (str, int, float); a bool is an int
isatom(x) == Ret(BoolV(x.k \in {"sym", "int", "float", "bool"}))

\* the number of positional parameters of each primitive
Arity(f) == IF f \in {"car", "cdr", "atom"} THEN 1 ELSE 2

\* proc(*args)
Call(proc, args) ==
    IF proc.k # "proc" THEN Raise("TypeError", "object is not callable")
    ELSE IF Len(args) # Arity(proc.f)
         THEN Raise("TypeError", "wrong number of positional arguments")
    ELSE CASE proc.f = "add" -> add(args[1], args[2])
           [] proc.f = "sub" -> sub(args[1], args[2])
           [] proc.f = "mul" -> mul(args[1], args[2])
           [] proc.f = "truediv" -> truediv(args[1], args[2])
           [] proc.f = "gt" -> Compare(args[1], args[2], {1})
           [] proc.f = "lt" -> Compare(args[1], args[2], {-1})
           [] proc.f = "ge" -> Compare(args[1], args[2], {0, 1})
           [] proc.f = "le" -> Compare(args[1], args[2], {-1, 0})
           [] proc.f = "eq" -> Ret(BoolV(PyEq(args[1], args[2])))
           [] proc.f = "cons" -> cons(args[1], args[2])
           [] proc.f = "car" -> car(args[1])
           [] proc.f = "cdr" -> cdr(args[1])
           [] proc.f = "atom" -> isatom(args[1])

\* the names of the Lisp language, as texts
quote == <<"q", "u", "o", "t", "e">>
if == <<"i", "f">>
define == <<"d", "e", "f", "i", "n", "e">>

\* the 13 names standard_env registers, each with its Python function
Primitives ==
    { <<<<"+">>, "add">>, <<<<"-">>, "sub">>, <<<<"*">>, "mul">>,
      <<<<"/">>, "truediv">>, <<<<">">>, "gt">>, <<<<"<">>, "lt">>,
      <<<<">", "=">>, "ge">>, <<<<"<", "=">>, "le">>, <<<<"e", "q">>, "eq">>,
      <<<<"c", "o", "n", "s">>, "cons">>, <<<<"c", "a", "r">>, "car">>,
      <<<<"c", "d", "r">>, "cdr">>, <<<<"a", "t", "o", "m">>, "atom">> }

standard_env ==
    [key \in {Symbol(b[1]) : b \in Primitives} |->
        Proc((CHOOSE b \in Primitives : b[1] = key.s)[2])]

---------------------------------------------------------------------------
(* Evaluator *)

\* a result of lisp_eval: the exception raised ("none" when it returned) and
\* its argument, the value returned, the environment as the evaluation left
\* it, and tr, the calls of lisp_eval it made, in order, each named by the
\* position of its expression in the top-level expression (a path of
\* 1-based indices)
Ev(exc, arg, val, env, tr) ==
    [exc |-> exc, arg |-> arg, val |-> val, env |-> env, tr |-> tr]

\* the key a dict files a term under: 1.0 and 1 are the same key
EnvKey(t) == IF t.k = "float" /\ t.d = 1 THEN IntV(t.n) ELSE t

\* a lookup that binds a missing name to None instead of raising
Lookup_Defaulting(env, x, tr) ==
    IF x \in DOMAIN env THEN Ev("none", None, env[x], env, tr)
    ELSE Ev("none", None, None,
            [key \in DOMAIN env \cup {x} |-> IF key = x THEN None ELSE env[key]], tr)

\* env[x] of line 107
Lookup(env, x, tr) ==
    IF x \in DOMAIN env THEN Ev("none", None, env[x], env, tr)
    ELSE Ev("KeyError", x, None, env, tr)

\* an assignment that keeps the value of a name already bound
EnvSet_KeepsFirst(env, symbol, value) ==
    [key \in DOMAIN env \cup {EnvKey(symbol)} |->
        IF key \in DOMAIN env THEN env[key] ELSE value]

\* an assignment that unbinds the name when the value is None
EnvSet_UnbindsOnNone(env, symbol, value) ==
    IF value = None
    THEN [key \in DOMAIN env \ {EnvKey(symbol)} |-> env[key]]
    ELSE [key \in DOMAIN env \cup {EnvKey(symbol)} |->
             IF key = EnvKey(symbol) THEN value ELSE env[key]]

\* env[symbol] = value of line 119
EnvSet(env, symbol, value) ==
    [key \in DOMAIN env \cup {EnvKey(symbol)} |->
        IF key = EnvKey(symbol) THEN value ELSE env[key]]

\* a truth value under which only the boolean false is false
Truthy_OnlyFalseIsFalsy(v) == v # BoolV(FALSE)

\* bool(v) of line 115: Python's truth value of v
Truthy(v) ==
    CASE v.k = "bool" -> v.b
      [] v.k = "int" -> v.v # 0
      [] v.k = "float" -> v.n # 0
      [] v.k = "sym" -> v.s # <<>>
      [] v.k = "list" -> v.e # <<>>
      [] v.k = "none" -> FALSE
      [] v.k = "proc" -> TRUE

\* a choice of the other branch
Branch_Swapped(v) == IF Truthy(v) THEN 4 ELSE 3

\* the branch of (if c a b) chosen for the condition's value v, as the
\* index of the branch in the form (line 115)
Branch(v) == IF Truthy(v) THEN 3 ELSE 4

\* operands evaluated from right to left
ArgOrder_RightToLeft(x) == [i \in 1..(Len(x) - 1) |-> Len(x) + 1 - i]

\* the indices of the operands of an application, in the order line 122
\* evaluates them
ArgOrder(x) == [i \in 1..(Len(x) - 1) |-> i + 1]

RECURSIVE lisp_eval(_, _, _)
RECURSIVE EvalArgs(_, _, _, _, _, _)

\* the list comprehension of line 122: the operands x[order[i..]] evaluated
\* in turn, args being the values so far; an exception ends it
EvalArgs(x, order, i, env, p, acc) ==
    IF i > Len(order) THEN acc
    ELSE LET r == lisp_eval(x[order[i]], env, Append(p, order[i]))
         IN IF r.exc # "none"
            THEN Ev(r.exc, r.arg, acc.val, r.env, acc.tr \o r.tr)
            ELSE EvalArgs(x, order, i + 1, r.env, p,
                          Ev("none", None, Append(acc.val, r.val), r.env, acc.tr \o r.tr))

lisp_eval(x, env, p) ==
    IF x.k = "sym" THEN Lookup(env, x, <<p>>)
    ELSE IF x.k \in {"int", "float"} THEN Ev("none", None, x, env, <<p>>)
    ELSE IF x.e = <<>>
         THEN Ev("IndexError", Msg("list index out of range"), None, env, <<p>>)
    ELSE IF x.e[1] = Symbol(quote)
         THEN IF Len(x.e) # 2
              THEN Ev("ValueError", Msg("values to unpack"), None, env, <<p>>)
              ELSE Ev("none", None, x.e[2], env, <<p>>)
    ELSE IF x.e[1] = Symbol(if)
         THEN IF Len(x.e) # 4
              THEN Ev("ValueError", Msg("values to unpack"), None, env, <<p>>)
              ELSE LET c == lisp_eval(x.e[2], env, Append(p, 2))
                   IN IF c.exc # "none"
                      THEN Ev(c.exc, c.arg, None, c.env, <<p>> \o c.tr)
                      ELSE LET r == lisp_eval(x.e[Branch(c.val)], c.env,
                                              Append(p, Branch(c.val)))
                           IN Ev(r.exc, r.arg, r.val, r.env, <<p>> \o c.tr \o r.tr)
    ELSE IF x.e[1] = Symbol(define)
         THEN IF Len(x.e) # 3
              THEN Ev("ValueError", Msg("values to unpack"), None, env, <<p>>)
              ELSE LET r == lisp_eval(x.e[3], env, Append(p, 3))
                   IN IF r.exc # "none"
                      THEN Ev(r.exc, r.arg, None, r.env, <<p>> \o r.tr)
                      ELSE IF x.e[2].k = "list"
                      THEN Ev("TypeError", Msg("unhashable type: 'list'"), None,
                              r.env, <<p>> \o r.tr)
                      ELSE Ev("none", None, None, EnvSet(r.env, x.e[2], r.val),
                              <<p>> \o r.tr)
    ELSE LET proc == lisp_eval(x.e[1], env, Append(p, 1))
         IN IF proc.exc # "none"
            THEN Ev(proc.exc, proc.arg, None, proc.env, <<p>> \o proc.tr)
            ELSE LET args == EvalArgs(x.e, ArgOrder(x.e), 1, proc.env, p,
                                      Ev("none", None, <<>>, proc.env, <<>>))
                 IN IF args.exc # "none"
                    THEN Ev(args.exc, args.arg, None, args.env,
                            <<p>> \o proc.tr \o args.tr)
                    ELSE LET r == Call(proc.val, args.val)
                         IN Ev(r.exc, r.arg, r.val, args.env,
                               <<p>> \o proc.tr \o args.tr)

---------------------------------------------------------------------------
(* Read-eval-print loop *)

\* what one iteration of repl() computed: the term parsed (None when the
\* parse raised), then the fields of the evaluation's result
Outcome(parsed, term, r) ==
    [parsed |-> parsed, term |-> term, exc |-> r.exc, arg |-> r.arg,
     val |-> r.val, tr |-> r.tr]

NoOutcome ==
    [parsed |-> FALSE, term |-> None, exc |-> "none", arg |-> None,
     val |-> None, tr |-> <<>>]

\* the exceptions repl() has an except clause for (lines 137-145)
Caught == {"SyntaxError", "ZeroDivisionError", "KeyError", "KeyboardInterrupt"}

\* lisp_eval(parse(text)) of line 134, against the environment env
EvalLine(text, env) ==
    LET t == parse(text)
    IN IF t.exc # "none"
       THEN [out |-> Outcome(FALSE, None, Ev(t.exc, t.arg, None, env, <<>>)), env |-> env]
       ELSE LET r == lisp_eval(t.val, env, <<>>)
            IN [out |-> Outcome(TRUE, t.val, r), env |-> r.env]

\* what the iteration prints for an outcome (lines 135-144)
Output(o) ==
    CASE o.exc = "none" -> IF o.val # None THEN <<lisp_str(o.val)>> ELSE <<>>
      [] o.exc = "SyntaxError" -> << <<"Syntax error: ", o.arg.m>> >>
      [] o.exc = "ZeroDivisionError" -> << <<"Zero Division Error">> >>
      [] o.exc = "KeyError" -> << <<"Lisp syntax error: ", "'">> \o o.arg.s \o <<"'">> >>
      [] OTHER -> <<>>

\* one iteration of the loop of lines 132-144 on the input line text
ReadEvalPrint(text) ==
    /\ pc = "input"
    /\ nread < MaxLines
    /\ LET e == EvalLine(text, global_env)
       IN /\ global_env' = e.env
          /\ res' = e.out
          /\ printed' = Output(e.out)
          /\ pc' = IF e.out.exc = "none" \/ e.out.exc \in Caught THEN "done" ELSE "crashed"
    /\ nread' = nread + 1
    /\ event' = "line"
    /\ line' = text
    /\ env0' = global_env

\* while True: the loop goes round to input(prompt) again
Prompt ==
    /\ pc = "done"
    /\ pc' = "input"
    /\ event' = "none"
    /\ printed' = <<>>
    /\ line' = <<>>
    /\ res' = NoOutcome
    /\ env0' = global_env
    /\ UNCHANGED <<global_env, nread>>

\* input() raises KeyboardInterrupt: lines 143-145 print and break
Interrupt ==
    /\ pc = "input"
    /\ pc' = "exit"
    /\ event' = "interrupt"
    /\ printed' = << <<"Keyboard Interrupt">> >>
    /\ line' = <<>>
    /\ res' = NoOutcome
    /\ env0' = global_env
    /\ UNCHANGED <<global_env, nread>>

\* input() raises EOFError at the end of the input: no except clause of
\* repl() names it, so it leaves repl()
EndOfInput ==
    /\ pc = "input"
    /\ pc' = "crashed"
    /\ event' = "eof"
    /\ printed' = <<>>
    /\ line' = <<>>
    /\ res' = NoOutcome
    /\ env0' = global_env
    /\ UNCHANGED <<global_env, nread>>

\* repl() is entered: line 131 prints the banner
Init ==
    /\ global_env = standard_env
    /\ pc = "input"
    /\ nread = 0
    /\ event = "none"
    /\ line = <<>>
    /\ env0 = standard_env
    /\ res = NoOutcome
    /\ printed = << <<"Lisp interpreter">> >>

---------------------------------------------------------------------------
(* The input lines *)

x == <<"x">>
y == <<"y">>
foo == <<"f", "o", "o">>

\* the symbol standard_env binds to the Python function f
Op(f) == Symbol((CHOOSE b \in Primitives : b[2] = f)[1])

Quote(t) == List(<<Symbol(quote), t>>)
If(c, a, b) == List(<<Symbol(if), c, a, b>>)
Define(s, e) == List(<<Symbol(define), s, e>>)
App1(f, a) == List(<<Op(f), a>>)
App2(f, a, b) == List(<<Op(f), a, b>>)

\* the source text of a term
RECURSIVE Source(_)
RECURSIVE Sources(_)
Sources(ts) == IF ts = <<>> THEN <<>> ELSE <<Source(Head(ts))>> \o Sources(Tail(ts))

Source(t) ==
    CASE t.k = "int" -> IntStr(t.v)
      [] t.k = "sym" -> t.s
      [] t.k = "list" -> <<"(">> \o Join(<<" ">>, Sources(t.e)) \o <<")">>

\* expressions used as operands, conditions and defined values
Operands ==
    { IntV(0), IntV(1), IntV(2), Symbol(x), Symbol(y), Symbol(foo), Op("car"),
      Quote(List(<<>>)), Quote(List(<<IntV(1)>>)),
      Quote(List(<<IntV(1), IntV(2), IntV(3)>>)), Quote(Symbol(<<"a", "b">>)),
      App2("cons", IntV(1), IntV(2)), App2("gt", IntV(3), IntV(2)),
      App2("lt", IntV(3), IntV(2)), App2("add", Symbol(x), IntV(1)),
      App2("truediv", IntV(1), IntV(2)), App2("truediv", IntV(1), IntV(0)),
      Define(Symbol(y), IntV(2)) }

DefinedValues ==
    { IntV(1), IntV(5), Symbol(foo), App2("add", Symbol(x), IntV(1)),
      Quote(List(<<IntV(1), IntV(2), IntV(3)>>)), Define(Symbol(y), IntV(2)) }

OperandPairs ==
    { <<IntV(1), IntV(2)>>, <<Symbol(x), IntV(1)>>, <<IntV(1), IntV(0)>>,
      <<Symbol(x), Symbol(y)>>,
      <<Quote(Symbol(<<"a", "b">>)), Quote(Symbol(<<"a">>))>>,
      <<Quote(List(<<IntV(1)>>)), IntV(2)>> }

BranchPairs ==
    { <<IntV(1), Define(Symbol(y), IntV(9))>>, <<Define(Symbol(x), IntV(1)), IntV(2)>> }

BinaryOps == {"add", "sub", "mul", "truediv", "gt", "lt", "ge", "le", "eq"}

\* forms that are ill-formed or ill-typed, and applications with effects
\* in their operands
OddTerms ==
    { List(<<>>), List(<<Symbol(quote)>>), List(<<Symbol(quote), IntV(1), IntV(2)>>),
      List(<<Symbol(if), IntV(1)>>), List(<<Symbol(define), Symbol(x)>>),
      Define(List(<<Symbol(x)>>), Define(Symbol(y), IntV(1))), Define(IntV(1), IntV(2)),
      List(<<Op("add"), IntV(1)>>), List(<<Op("add"), IntV(1), IntV(2), IntV(3)>>),
      List(<<IntV(1), Define(Symbol(x), IntV(2))>>),
      List(<<Op("add"), Define(Symbol(x), IntV(1)), Symbol(foo), Define(Symbol(y), IntV(2))>>),
      List(<<Op("cons"), Define(Symbol(x), IntV(1)), Define(Symbol(x), IntV(2))>>),
      If(App2("gt", IntV(3), IntV(2)), IntV(1), Define(Symbol(y), IntV(9))),
      If(If(IntV(0), IntV(1), IntV(0)), Define(Symbol(x), IntV(1)), Define(Symbol(y), IntV(2))),
      App2("mul", Quote(Symbol(<<"a">>)), IntV(0)),
      If(App2("mul", Quote(Symbol(<<"a">>)), IntV(0)), IntV(1), IntV(2)),
      If(App2("truediv", IntV(0), IntV(1)), IntV(1), IntV(2)),
      Define(Symbol(x), Define(Symbol(y), IntV(2))), Define(Op("car"), IntV(1)) }

InputTerms ==
    Operands
    \cup {Define(s, e) : s \in {Symbol(x), Symbol(y), Op("add")}, e \in DefinedValues}
    \cup {App2(f, ab[1], ab[2]) : f \in BinaryOps, ab \in OperandPairs}
    \cup {If(c, ab[1], ab[2]) : c \in Operands, ab \in BranchPairs}
    \cup {App1(f, a) : f \in {"car", "cdr", "atom"}, a \in Operands}
    \cup OddTerms

\* texts the reader rejects or reads only a part of
OddLines ==
    { <<>>, <<" ">>, <<"(">>, <<")">>, <<"(", "+", " ", "1">>,
      <<"(", "x", " ", "(", "1", ")">>, <<"1", " ", "2">>,
      <<"(", ")", ")">>, <<"0", ".", "5">> }

InputLines == {Source(t) : t \in InputTerms} \cup OddLines

\* the read-eval-print loop fed any of the input lines, interrupted or
\* cut off at any point
Next ==
    \/ \E text \in InputLines : ReadEvalPrint(text)
    \/ Prompt
    \/ Interrupt
    \/ EndOfInput

Spec == Init /\ [][Next]_vars

---------------------------------------------------------------------------
(* The loop fed one line, the line being any text up to MaxLen characters  *)
(* long, as it stands or as the operand of a quote form                    *)

ReaderAlphabet == {"(", ")", " ", "1", "-", "a"}

Texts == UNION {[1..n -> ReaderAlphabet] : n \in 0..MaxLen}

QuoteText(text) == <<"(">> \o quote \o <<" ">> \o text \o <<")">>

\* the line waiting on the standard input when repl() is entered
InitReader ==
    /\ global_env = standard_env
    /\ pc = "input"
    /\ nread = 0
    /\ event = "none"
    /\ line \in Texts \cup {QuoteText(text) : text \in Texts}
    /\ env0 = standard_env
    /\ res = NoOutcome
    /\ printed = << <<"Lisp interpreter">> >>

\* the loop reads the waiting line
ReadLine == nread = 0 /\ event = "none" /\ ReadEvalPrint(line)

NextReader == ReadLine

SpecReader == InitReader /\ [][NextReader]_vars

---------------------------------------------------------------------------
(* Vocabulary of the properties *)

\* the sub-term of t at path p
RECURSIVE TermAt(_, _)
TermAt(t, p) == IF p = <<>> THEN t ELSE TermAt(t.e[Head(p)], Tail(p))

IsPrefix(p, q) == Len(p) <= Len(q) /\ SubSeq(q, 1, Len(p)) = p

\* how many times the expression at path p was evaluated
Count(tr, p) == Cardinality({i \in 1..Len(tr) : tr[i] = p})

Headed(t, name) == t.k = "list" /\ t.e # <<>> /\ t.e[1] = Symbol(name)

IsQuoteForm(t) == Headed(t, quote) /\ Len(t.e) = 2
IsIfForm(t) == Headed(t, if) /\ Len(t.e) = 4
IsDefineForm(t) == Headed(t, define) /\ Len(t.e) = 3
IsApplication(t) ==
    t.k = "list" /\ t.e # <<>> /\ ~Headed(t, quote) /\ ~Headed(t, if) /\ ~Headed(t, define)

\* the names that the lists headed by define, outside the lists headed by
\* quote, give in the position of the defined symbol
RECURSIVE DefineTargets(_)
DefineTargets(t) ==
    IF t.k # "list" \/ Headed(t, quote) THEN {}
    ELSE (IF Headed(t, define) /\ Len(t.e) >= 2 /\ t.e[2].k # "list"
          THEN {EnvKey(t.e[2])} ELSE {})
         \cup UNION {DefineTargets(t.e[i]) : i \in 1..Len(t.e)}

\* a list headed by define occurs in t outside the lists headed by quote
RECURSIVE HasDefine(_)
HasDefine(t) ==
    /\ t.k = "list"
    /\ ~Headed(t, quote)
    /\ Headed(t, define) \/ \E i \in 1..Len(t.e) : HasDefine(t.e[i])

\* the last line evaluated a define form whose symbol is s
DefineEvaluated(s) ==
    \E i \in 1..Len(res.tr) :
        LET f == TermAt(res.term, res.tr[i])
        IN IsDefineForm(f) /\ f.e[2].k # "list" /\ EnvKey(f.e[2]) = s

SameBinding(s) ==
    /\ s \in DOMAIN global_env <=> s \in DOMAIN env0
    /\ s \in DOMAIN env0 => global_env[s] = env0[s]

Bound(env, name, value) == Symbol(name) \in DOMAIN env /\ env[Symbol(name)] = value

---------------------------------------------------------------------------
(* Properties *)

\* C1: a line (define s e), s a symbol, whose e evaluates to v returns
\* nothing, prints nothing and leaves s bound to v; a line that is a bound
\* symbol s returns the value s is bound to; the binding of s stays as it is
\* through every line that evaluates no define of s; and with x bound to 5
\* the line (+ x 1) evaluates to 6.
C1_DefineBindsUntilRedefined ==
    /\ (res.parsed /\ IsDefineForm(res.term) /\ res.term.e[2].k = "sym" /\ res.exc = "none")
        => /\ res.val = None
           /\ printed = <<>>
           /\ res.term.e[2] \in DOMAIN global_env
           /\ global_env[res.term.e[2]] = lisp_eval(res.term.e[3], env0, <<3>>).val
    /\ (res.parsed /\ res.term.k = "sym" /\ res.term \in DOMAIN env0)
        => res.exc = "none" /\ res.val = env0[res.term]
    /\ \A s \in DOMAIN env0 : (event = "line" /\ ~DefineEvaluated(s)) => SameBinding(s)
    /\ (event = "line" /\ line = Source(App2("add", Symbol(x), IntV(1)))
        /\ Bound(env0, x, IntV(5)) /\ Bound(env0, <<"+">>, Proc("add")))
        => res.exc = "none" /\ res.val = IntV(6) /\ printed = << <<"6">> >>

C1_Witness ==
    /\ event = "line"
    /\ line = Source(App2("add", Symbol(x), IntV(1)))
    /\ Bound(env0, x, IntV(5))
    /\ res.val = IntV(6)

\* C2: an evaluated (if c a b) evaluates c once and at most one of a and b,
\* exactly one when the line's evaluation succeeds, and nothing inside the
\* other branch; a define that is the unchosen branch of the line leaves
\* its symbol's binding as it was; after (if (> 3 2) 1 (define y 9)) an
\* unbound y is still unbound.
C2_IfEvaluatesOneBranch ==
    /\ \A i \in 1..Len(res.tr) :
        LET p == res.tr[i]
            chosen == {j \in {3, 4} : Count(res.tr, Append(p, j)) > 0}
        IN IsIfForm(TermAt(res.term, p)) =>
            /\ Count(res.tr, Append(p, 2)) = 1
            /\ Cardinality(chosen) <= 1
            /\ res.exc = "none" => Cardinality(chosen) = 1
            /\ \A j \in {3, 4} : Count(res.tr, Append(p, j)) <= 1
            /\ \A j \in {3, 4} \ chosen, l \in 1..Len(res.tr) :
                   ~IsPrefix(Append(p, j), res.tr[l])
    /\ (res.parsed /\ IsIfForm(res.term)) =>
        \A j \in {3, 4} :
            LET b == res.term.e[j]
                others == DefineTargets(res.term.e[2]) \cup DefineTargets(res.term.e[7 - j])
            IN (/\ Count(res.tr, <<j>>) = 0
                /\ IsDefineForm(b) /\ b.e[2].k = "sym"
                /\ b.e[2] \notin others)
               => SameBinding(b.e[2])
    /\ (event = "line"
        /\ line = Source(If(App2("gt", IntV(3), IntV(2)), IntV(1), Define(Symbol(y), IntV(9))))
        /\ Symbol(y) \notin DOMAIN env0)
        => res.val = IntV(1) /\ Symbol(y) \notin DOMAIN global_env

C2_Witness ==
    /\ event = "line"
    /\ line = Source(If(App2("gt", IntV(3), IntV(2)), IntV(1), Define(Symbol(y), IntV(9))))
    /\ res.tr = <<<<>>, <<2>>, <<2, 1>>, <<2, 2>>, <<2, 3>>, <<3>>>>
    /\ Symbol(y) \notin DOMAIN global_env

\* C3: an error in an input line never ends the loop: after a line the loop
\* is at the end of an iteration, having printed a diagnostic if the line
\* raised; the loop is left only on end of input or an interrupt.
C3_ErrorsAreCaught ==
    /\ event = "line" => pc = "done"
    /\ (event = "line" /\ res.exc # "none") => printed # <<>>
    /\ pc \in {"exit", "crashed"} => event \in {"eof", "interrupt"}

\* the tokens open a list that they do not close: the first is "(" and no
\* prefix of them closes as many lists as it opens
RECURSIVE Depth(_)
Depth(tokens) ==
    IF tokens = <<>> THEN 0
    ELSE Depth(SubSeq(tokens, 1, Len(tokens) - 1))
         + (IF tokens[Len(tokens)] = <<"(">> THEN 1
            ELSE IF tokens[Len(tokens)] = <<")">> THEN -1 ELSE 0)

Unterminated(tokens) ==
    /\ tokens # <<>>
    /\ tokens[1] = <<"(">>
    /\ \A n \in 1..Len(tokens) : Depth(SubSeq(tokens, 1, n)) > 0

\* C4: a line whose tokens leave an open parenthesis unmatched makes the
\* reader raise the syntax error 'unexpected EOF'.
C4_UnterminatedIsUnexpectedEOF ==
    (event = "line" /\ Unterminated(tokenize(line)))
        => ~res.parsed /\ res.exc = "SyntaxError" /\ res.arg = Msg("unexpected EOF")

\* the calls of lisp_eval on the elements of the form at path p, in order
ChildCalls(tr, p) ==
    LET IsChild(q) == Len(q) = Len(p) + 1 /\ IsPrefix(p, q)
    IN SelectSeq(tr, IsChild)

\* C5: an evaluated application evaluates its operator, then its operands
\* from left to right, each once, and stops at the first that raises: the
\* line then raises and evaluates nothing after it; the line
\* (+ (define x 1) foo (define y 2)) with foo unbound raises KeyError, leaves
\* x bound to 1 and leaves y as it was.
C5_OperandsLeftToRight ==
    /\ \A i \in 1..Len(res.tr) :
        LET p == res.tr[i]
            f == TermAt(res.term, p)
            ch == ChildCalls(res.tr, p)
        IN IsApplication(f) =>
            /\ Len(ch) >= 1
            /\ Len(ch) <= Len(f.e)
            /\ \A j \in 1..Len(ch) : ch[j] = Append(p, j)
            /\ Len(ch) < Len(f.e) =>
                /\ res.exc # "none"
                /\ IsPrefix(Append(p, Len(ch)), res.tr[Len(res.tr)])
    /\ (event = "line"
        /\ line = Source(List(<<Op("add"), Define(Symbol(x), IntV(1)), Symbol(foo),
                                Define(Symbol(y), IntV(2))>>))
        /\ Symbol(foo) \notin DOMAIN env0)
        => /\ res.exc = "KeyError"
           /\ res.arg = Symbol(foo)
           /\ Bound(global_env, x, IntV(1))
           /\ SameBinding(Symbol(y))

C5_Witness ==
    /\ event = "line"
    /\ line = Source(List(<<Op("add"), Define(Symbol(x), IntV(1)), Symbol(foo),
                            Define(Symbol(y), IntV(2))>>))
    /\ res.exc = "KeyError"
    /\ res.tr = <<<<>>, <<1>>, <<2>>, <<2, 3>>, <<3>>>>
    /\ Bound(global_env, x, IntV(1))
    /\ Symbol(y) \notin DOMAIN global_env

\* C6, as claimed: each of the 13 names is always bound to the procedure
\* standard_env registered for it.
C6_PrimitivesNeverRebound ==
    \A key \in DOMAIN standard_env :
        key \in DOMAIN global_env /\ global_env[key] = standard_env[key]

\* C6, amended: each of the 13 names is always bound, and a line changes the
\* value of one only by evaluating a define form that names it.
C6_PrimitivesStayBound ==
    \A key \in DOMAIN standard_env :
        /\ key \in DOMAIN global_env
        /\ key \in DOMAIN env0
        /\ global_env[key] # env0[key] => DefineEvaluated(key)

C6_Witness ==
    /\ Bound(env0, <<"+">>, Proc("add"))
    /\ Bound(global_env, <<"+">>, IntV(5))
    /\ \A key \in DOMAIN standard_env : key \in DOMAIN global_env

\* the value of the condition of the line, when the line is an if form
Condition == lisp_eval(res.term.e[2], env0, <<2>>)

\* C7, as claimed: the consequent is chosen unless the condition's value is
\* the boolean false.
C7_OnlyFalseIsFalsy ==
    (res.parsed /\ IsIfForm(res.term) /\ Condition.exc = "none")
        => (Count(res.tr, <<4>>) = 1 <=> Condition.val = BoolV(FALSE))

\* the values Python takes for false
Falsy(v) ==
    \/ v = BoolV(FALSE)
    \/ v.k = "int" /\ v.v = 0
    \/ v.k = "float" /\ v.n = 0
    \/ v = List(<<>>)
    \/ v = Symbol(<<>>)
    \/ v = None

\* C7, amended: the alternative is chosen when the condition's value is the
\* boolean false, a number equal to zero, the empty list, the empty symbol
\* or the None that define returns, and the consequent for every other value.
C7_PythonTruthiness ==
    (res.parsed /\ IsIfForm(res.term) /\ Condition.exc = "none")
        => /\ Count(res.tr, <<4>>) = 1 <=> Falsy(Condition.val)
           /\ Count(res.tr, <<3>>) = 1 <=> ~Falsy(Condition.val)

C7_Witness ==
    /\ res.parsed /\ IsIfForm(res.term)
    /\ res.term.e[2] = IntV(0)
    /\ res.tr = <<<<>>, <<2>>, <<4>>>>

\* the value of the operand of the line, when the line is (car e) or (cdr e)
Operand == lisp_eval(res.term.e[2], env0, <<2>>)

\* C8: car and cdr return elements 0 and 1 of a list of exactly two
\* elements and raise a type error for every other argument.
C8_CarCdrOnlyOfPairs ==
    \A sel \in {<<"car", 1>>, <<"cdr", 2>>} :
        (/\ res.parsed /\ res.term.k = "list" /\ Len(res.term.e) = 2
         /\ res.term.e[1] = Op(sel[1])
         /\ Bound(env0, Op(sel[1]).s, Proc(sel[1]))
         /\ Operand.exc = "none")
        => IF Operand.val.k = "list" /\ Len(Operand.val.e) = 2
           THEN res.exc = "none" /\ res.val = Operand.val.e[sel[2]]
           ELSE res.exc = "TypeError"

\* a term of integers, symbols and lists of such terms
RECURSIVE Plain(_)
Plain(t) ==
    \/ t.k \in {"int", "sym"}
    \/ t.k = "list" /\ \A i \in 1..Len(t.e) : Plain(t.e[i])

\* C9: a line (quote t), t built of integers, symbols and lists, evaluates
\* to t with no other evaluation and no change of the environment, and the
\* text printed for it parses to t.
C9_QuoteRoundTrip ==
    (res.parsed /\ IsQuoteForm(res.term) /\ Plain(res.term.e[2]))
        => /\ res.exc = "none"
           /\ res.val = res.term.e[2]
           /\ res.tr = << <<>> >>
           /\ global_env = env0
           /\ Len(printed) = 1
           /\ parse(printed[1]) = Read("none", None, res.term.e[2], <<>>)

C9_Witness ==
    /\ res.parsed /\ IsQuoteForm(res.term)
    /\ res.term.e[2] = List(<<List(<<>>), Symbol(<<"a">>)>>)
    /\ printed = << <<"(", "(", ")", " ", "a", ")">> >>

\* C10: a line changes the environment only by define: a line with no list
\* headed by define outside a quote leaves it as it was, whether it returns
\* or raises; every line leaves bound what was bound; and the bindings a line
\* adds or changes are among the symbols of its define forms.
C10_OnlyDefineChangesEnv ==
    /\ (event = "line" /\ ~res.parsed) => global_env = env0
    /\ (res.parsed /\ ~HasDefine(res.term)) => global_env = env0
    /\ DOMAIN env0 \subseteq DOMAIN global_env
    /\ \A key \in DOMAIN global_env :
        (key \notin DOMAIN env0 \/ global_env[key] # env0[key])
            => res.parsed /\ key \in DefineTargets(res.term)

C10_Witness ==
    /\ res.parsed
    /\ res.term = Define(Symbol(x), Define(Symbol(y), IntV(2)))
    /\ Bound(env0, x, IntV(5))
    /\ Bound(global_env, x, None)
    /\ Bound(global_env, y, IntV(2))

====
